---- MODULE Spec2Model ----
(***************************************************************************)
(* Model of src/api-layer/overlays.h: the shared-memory bump buffer        *)
(* (IPCBuffer), the pointer fixup ledger (IPCHeader), the RPC channel      *)
(* wait protocol (RPCChannels) and the negotiation handshake               *)
(* (NegotiationParams / NegotiationChannels).                              *)
(*                                                                         *)
(* size_t and pointers are SizeBits wide: all address and size arithmetic  *)
(* is taken modulo SizeMod, as unsigned arithmetic is in the source.       *)
(***************************************************************************)
EXTENDS Integers, Sequences, FiniteSets, TLC

(* ------------------------------------------------------------------ *)
(* Bounds                                                              *)
(* ------------------------------------------------------------------ *)
SizeBits == 6
SizeMod == 2 ^ SizeBits
MaxSize == 12

\* static const int memberAlignment
memberAlignment == 8

\* buffer capacities, buffer base addresses, the byte values a writer copies in
Sizes == 0 .. MaxSize
BufBases == {16, 40}
Data == {1}
\* requested sizes: small ones, and ones close to the top of size_t
SizeArgs == (0 .. (MaxSize + 5)) \cup ((SizeMod - 10) .. (SizeMod - 1))

Null == 0

\* IPCHeader: where the segment is mapped, the offsets of the pointer slots
\* a chain copy may record, and what a slot may point at (offset from the base)
HdrBases == {16, 32}
SlotOffsets == {0, 8}
FillerSlot == 2 * memberAlignment
Targets == {0, 8}
\* the first MaxVaried entries of the ledger are recorded for any slot, the
\* later ones for the filler slot
MaxVaried == 2

\* RPCChannels: the threads of the overlay process that issue calls
NumOverlayThreads == 2
OverlayThreads == 1 .. NumOverlayThreads

\* negotiation: the attempts an overlay makes, the process ids and the layer
\* binary versions an overlay process may have
maxAttempts == 3
MainPids == {100}
OverlayPids == {201, 202, 203}
OverlayVersions == {1, 2}

\* GetNextLocalHandle: the calls made before the counter is left alone
MaxHandles == 6

VARIABLES
    \* IPCBuffer
    base, size, current, mem, bufPc, lastOp, lastArg, ret, readOut,
    \* IPCHeader and the pointer slots of the segment it describes
    hdrBase, pointerFixupCount, pointerOffsets, slots,
    hdrOp, addArg, addRet, relBase, snapshot,
    \* a chain copy into the segment: whether a slot it handed to the
    \* recording callback went unrecorded, and what the copy returned
    unrecorded, chainResult,
    \* RPCChannels: the two semaphores, the main process and its handle, the
    \* channel mutex, the overlay threads inside a call
    overlayRequestSema, mainResponseSema, mainPc, handlesValid,
    mutexOwner, useMutex, channelFailed, ovPc, waitResult, waitRet, outcomes,
    \* whether the main process handle was signalled too when the wait of a
    \* thread ended
    observedDead,
    \* negotiation: the shared record, its mutex and semaphores, the main
    \* negotiation thread, the overlay's attempts, the main-side table
    params, negMutex, overlayWaitSema, mainWaitSema, mainNegPc, ovNegPc,
    attempts, ovPid, ovVersion, gConnectionsToOverlayByProcessId, channelsCreated,
    \* GetNextLocalHandle: its static counter and, for every calling thread,
    \* the values its calls have returned, in order
    nextHandle, handedOut

bufVars == <<base, size, current, mem, bufPc, lastOp, lastArg, ret, readOut>>
hdrVars == <<hdrBase, pointerFixupCount, pointerOffsets, slots,
             hdrOp, addArg, addRet, relBase, snapshot, unrecorded, chainResult>>
rpcVars == <<overlayRequestSema, mainResponseSema, mainPc, handlesValid,
             mutexOwner, useMutex, channelFailed, ovPc, waitResult, waitRet, outcomes, observedDead>>
negVars == <<params, negMutex, overlayWaitSema, mainWaitSema, mainNegPc, ovNegPc,
             attempts, ovPid, ovVersion, gConnectionsToOverlayByProcessId,
             channelsCreated>>
handleVars == <<nextHandle, handedOut>>
vars == <<bufVars, hdrVars, rpcVars, negVars, handleVars>>

(* ------------------------------------------------------------------ *)
(* size_t arithmetic                                                   *)
(* ------------------------------------------------------------------ *)
Wrap(x) == ((x % SizeMod) + SizeMod) % SizeMod

\* static size_t pad(size_t s)
pad(s) == Wrap((Wrap(s + memberAlignment - 1) \div memberAlignment) * memberAlignment)

(* ------------------------------------------------------------------ *)
(* IPCBuffer                                                           *)
(* ------------------------------------------------------------------ *)
\* current - base, as the size_t the bound checks compute with
Offset == Wrap(current - base)

\* the bound check shared by write, read, getAndAdvance and allocate:
\* TRUE when the call is refused, (current - base + s) > size
PastEnd(s) == Wrap(Offset + s) > size

\* void advance(size_t s)
advance(s) == Wrap(current + pad(s))

\* memcpy(current, p, s) seen from the buffer: the bytes of the buffer that
\* the copy of s bytes of value d starting at the cursor lands on
CopyIn(s, d) ==
    [i \in DOMAIN mem |-> IF i >= Offset /\ i < Offset + s THEN d ELSE mem[i]]

\* memcpy(p, current, s) seen from the buffer: the bytes handed to the reader
CopyOut(s) ==
    [i \in 1 .. s |-> IF Offset + i - 1 \in DOMAIN mem THEN mem[Offset + i - 1] ELSE 0]

\* a copy of s bytes at the cursor that runs over the end of the buffer
Overrun(s) == Offset + s > size

BufInit ==
    /\ base \in BufBases
    /\ size \in Sizes
    /\ current = base
    /\ mem = [i \in 0 .. (size - 1) |-> 0]
    /\ bufPc = "running"
    /\ lastOp = "construct"
    /\ lastArg = 0
    /\ ret = 0
    /\ readOut = <<>>

reset ==
    /\ bufPc = "running"
    /\ current' = base
    /\ lastOp' = "reset"
    /\ lastArg' = 0
    /\ ret' = 0
    /\ readOut' = <<>>
    /\ UNCHANGED <<base, size, mem, bufPc>>
    /\ UNCHANGED <<hdrVars, rpcVars, negVars, handleVars>>

allocate(s) ==
    /\ bufPc = "running"
    /\ lastOp' = "allocate"
    /\ lastArg' = s
    /\ IF PastEnd(s)
         THEN /\ ret' = Null
              /\ UNCHANGED current
         ELSE /\ ret' = current
              /\ current' = advance(s)
    /\ readOut' = <<>>
    /\ UNCHANGED <<base, size, mem, bufPc>>
    /\ UNCHANGED <<hdrVars, rpcVars, negVars, handleVars>>

getAndAdvance(s) ==
    /\ bufPc = "running"
    /\ lastOp' = "getAndAdvance"
    /\ lastArg' = s
    /\ IF PastEnd(s)
         THEN /\ ret' = Null
              /\ UNCHANGED current
         ELSE /\ ret' = current
              /\ current' = advance(s)
    /\ readOut' = <<>>
    /\ UNCHANGED <<base, size, mem, bufPc>>
    /\ UNCHANGED <<hdrVars, rpcVars, negVars, handleVars>>

\* The templates write<T>, read<T> name a size s that is not declared: they
\* cannot be instantiated and are no operation of the buffer.

\* bool write(const void* p, size_t s); the s source bytes all have value d.
\* A copy that runs over the end of the buffer is undefined: the process
\* either dies in memcpy or goes on with the bytes it managed to clobber.
write(s, d) ==
    /\ bufPc = "running"
    /\ lastOp' = "write"
    /\ lastArg' = s
    /\ IF PastEnd(s)
         THEN /\ ret' = 0
              /\ UNCHANGED <<current, mem, bufPc>>
         ELSE /\ mem' = CopyIn(s, d)
              /\ \/ /\ ret' = 1
                    /\ current' = advance(s)
                    /\ UNCHANGED bufPc
                 \/ /\ Overrun(s)
                    /\ bufPc' = "crashed"
                    /\ UNCHANGED <<current, ret>>
    /\ readOut' = <<>>
    /\ UNCHANGED <<base, size>>
    /\ UNCHANGED <<hdrVars, rpcVars, negVars, handleVars>>

\* void read(void* p, size_t s)
read(s) ==
    /\ bufPc = "running"
    /\ lastOp' = "read"
    /\ lastArg' = s
    /\ ret' = 0
    /\ IF PastEnd(s)
         THEN /\ bufPc' = "aborted"
              /\ readOut' = <<>>
              /\ UNCHANGED current
         ELSE \/ /\ readOut' = CopyOut(s)
                 /\ current' = advance(s)
                 /\ UNCHANGED bufPc
              \/ /\ Overrun(s)
                 /\ bufPc' = "crashed"
                 /\ readOut' = <<>>
                 /\ UNCHANGED current
    /\ UNCHANGED <<base, size, mem>>
    /\ UNCHANGED <<hdrVars, rpcVars, negVars, handleVars>>

BufNext ==
    \/ reset
    \/ \E s \in SizeArgs : allocate(s)
    \/ \E s \in SizeArgs : getAndAdvance(s)
    \/ \E s \in SizeArgs, d \in Data : write(s, d)
    \/ \E s \in SizeArgs : read(s)

(* ------------------------------------------------------------------ *)
(* IPCHeader: the fixup ledger and pointer relocation                  *)
(* ------------------------------------------------------------------ *)
maxPointerFixupCount == 128

AllSlots == SlotOffsets \cup {FillerSlot}

\* the bound check written with > : one entry too many is accepted
LedgerFullOffByOne == pointerFixupCount > maxPointerFixupCount

\* if(pointerFixupCount >= maxPointerFixupCount) return false;
LedgerFull == pointerFixupCount >= maxPointerFixupCount

\* if(pointer) pointer = pointer - (base - 0);   nullptr remains nullptr
RelativeOf(pointer, b) == IF pointer # Null THEN Wrap(pointer - b) ELSE pointer

\* if(pointer) pointer = pointer + (base - 0);   nullptr remains nullptr
AbsoluteOf(pointer, b) == IF pointer # Null THEN Wrap(pointer + b) ELSE pointer

\* the slot at base + pointerOffsets[i]: slots are named by their offset in
\* the segment, whatever address the segment is mapped at
SlotAt(i) == pointerOffsets[i]

\* for(int i = 0; i < pointerFixupCount; i++) of makePointersRelative, from
\* entry i on (entries are 1-based here), on the slot contents m
\* the iterations lo .. hi of that loop, in order, on the slot contents m (a
\* segment without slots has nothing to relocate); the range is split in two
\* so that the evaluation stays shallow on a full ledger
RECURSIVE RelativeRange(_, _, _, _)
RelativeRange(lo, hi, m, b) ==
    IF lo > hi \/ DOMAIN m = {}
      THEN m
      ELSE IF lo = hi
        THEN [m EXCEPT ![SlotAt(lo)] = RelativeOf(m[SlotAt(lo)], b)]
        ELSE LET mid == (lo + hi) \div 2
                 firstHalf == RelativeRange(lo, mid, m, b)
             IN  RelativeRange(mid + 1, hi, firstHalf, b)

RelativeFrom(i, m, b) == RelativeRange(i, pointerFixupCount, m, b)

\* for(int i = 0; i < pointerFixupCount; i++) of makePointersAbsolute
RECURSIVE AbsoluteRange(_, _, _, _)
AbsoluteRange(lo, hi, m, b) ==
    IF lo > hi \/ DOMAIN m = {}
      THEN m
      ELSE IF lo = hi
        THEN [m EXCEPT ![SlotAt(lo)] = AbsoluteOf(m[SlotAt(lo)], b)]
        ELSE LET mid == (lo + hi) \div 2
                 firstHalf == AbsoluteRange(lo, mid, m, b)
             IN  AbsoluteRange(mid + 1, hi, firstHalf, b)

AbsoluteFrom(i, m, b) == AbsoluteRange(i, pointerFixupCount, m, b)

HdrInit ==
    /\ hdrBase \in HdrBases
    /\ pointerFixupCount = 0
    /\ pointerOffsets = <<>>
    /\ slots = [o \in AllSlots |-> Null]
    /\ hdrOp = "construct"
    /\ addArg = 0
    /\ addRet = FALSE
    /\ relBase = 0
    /\ snapshot = [o \in AllSlots |-> Null]
    /\ unrecorded = FALSE
    /\ chainResult = "copying"

\* bool addOffsetToPointer(void* vbase, void* vp), with vbase the base the
\* segment is mapped at
addOffsetToPointer(vp) ==
    /\ hdrOp \in {"construct", "add", "store"}
    /\ hdrOp' = "add"
    /\ addArg' = vp
    /\ IF LedgerFull
         THEN /\ addRet' = FALSE
              /\ UNCHANGED <<pointerFixupCount, pointerOffsets>>
         ELSE /\ pointerOffsets' = Append(pointerOffsets, Wrap(vp - hdrBase))
              /\ pointerFixupCount' = pointerFixupCount + 1
              /\ addRet' = TRUE
    /\ UNCHANGED <<hdrBase, slots, relBase, snapshot>>
    /\ UNCHANGED <<bufVars, rpcVars, negVars, handleVars>>

\* the chain copy stores a pointer (null, or into the segment) in a slot
storePointer(o, v) ==
    /\ hdrOp \in {"construct", "add", "store"}
    /\ slots[o] # v
    /\ hdrOp' = "store"
    /\ slots' = [slots EXCEPT ![o] = v]
    /\ UNCHANGED <<hdrBase, pointerFixupCount, pointerOffsets, addArg, addRet,
                   relBase, snapshot, unrecorded, chainResult>>
    /\ UNCHANGED <<bufVars, rpcVars, negVars, handleVars>>

\* the recording callback CopyXrStructChain is given,
\* std::function<void (void* pointerToPointer)>: it calls addOffsetToPointer
\* for the slot and has no result to hand back
recordPointer(vp) ==
    /\ addOffsetToPointer(vp)
    /\ unrecorded' = (unrecorded \/ ~addRet')
    /\ UNCHANGED chainResult

\* CopyXrStructChain returns the copy of the chain
CopyXrStructChain ==
    /\ hdrOp \in {"construct", "add", "store"}
    /\ hdrOp' = "copied"
    /\ chainResult' = "success"
    /\ UNCHANGED <<hdrBase, pointerFixupCount, pointerOffsets, slots, addArg, addRet,
                   relBase, snapshot, unrecorded>>
    /\ UNCHANGED <<bufVars, rpcVars, negVars, handleVars>>

\* void makePointersRelative(void* vbase)
makePointersRelative(vbase) ==
    /\ hdrOp \in {"construct", "add", "store", "copied"}
    /\ hdrOp' = "relative"
    /\ relBase' = vbase
    /\ snapshot' = slots
    /\ slots' = RelativeFrom(1, slots, vbase)
    /\ UNCHANGED <<hdrBase, pointerFixupCount, pointerOffsets, addArg, addRet,
                   unrecorded, chainResult>>
    /\ UNCHANGED <<bufVars, rpcVars, negVars, handleVars>>

\* void makePointersAbsolute(void* vbase)
makePointersAbsolute(vbase) ==
    /\ hdrOp = "relative"
    /\ hdrOp' = "absolute"
    /\ slots' = AbsoluteFrom(1, slots, vbase)
    /\ UNCHANGED <<hdrBase, pointerFixupCount, pointerOffsets, addArg, addRet,
                   relBase, snapshot, unrecorded, chainResult>>
    /\ UNCHANGED <<bufVars, rpcVars, negVars, handleVars>>

\* the slots a caller records: any slot for the first entries of the ledger
RecordableSlots == IF pointerFixupCount < MaxVaried THEN SlotOffsets ELSE {FillerSlot}

HdrNext ==
    \/ \E o \in RecordableSlots : recordPointer(Wrap(hdrBase + o))
    \/ \E o \in SlotOffsets, v \in {Null} \cup {Wrap(hdrBase + t) : t \in Targets} :
          storePointer(o, v)
    \/ CopyXrStructChain
    \/ makePointersRelative(hdrBase)
    \/ makePointersAbsolute(hdrBase)

(* ------------------------------------------------------------------ *)
(* RPCChannels: one channel between the main and the overlay process   *)
(* ------------------------------------------------------------------ *)
\* enum WaitResult
OVERLAY_REQUEST_READY == 0
MAIN_RESPONSE_READY == 1
OVERLAY_PROCESS_TERMINATED == 2
MAIN_PROCESS_TERMINATED == 3
WAIT_ERROR == 4

\* a C++ bool as the integer it converts to
BoolTrue == 1
BoolFalse == 0

\* the process handle of the main process is signalled once it has terminated
otherProcessSignalled == mainPc = "dead"

\* a wait that reports the process handle before the semaphore
WaitForMultipleObjectsProcessFirst ==
    IF ~handlesValid THEN "WAIT_FAILED"
    ELSE IF otherProcessSignalled THEN "WAIT_OBJECT_1"
    ELSE IF mainResponseSema > 0 THEN "WAIT_OBJECT_0"
    ELSE "WAIT_TIMEOUT"

\* WaitForMultipleObjects(2, handles, FALSE, OVERLAY_REQUEST_WAIT_MILLIS) with
\* handles[0] = mainResponseSema, handles[1] = otherProcessHandle: the lowest
\* index that is signalled, a timeout when none is, a failure when a handle
\* of the set is not valid
WaitForMultipleObjects ==
    IF ~handlesValid THEN "WAIT_FAILED"
    ELSE IF mainResponseSema > 0 THEN "WAIT_OBJECT_0"
    ELSE IF otherProcessSignalled THEN "WAIT_OBJECT_1"
    ELSE "WAIT_TIMEOUT"

\* what WaitForMainResponseOrFail returns once the loop has ended with result
WaitReturnValue(result) ==
    IF result = "WAIT_OBJECT_0" THEN BoolTrue
    ELSE IF result = "WAIT_OBJECT_1" THEN BoolFalse
    ELSE BoolFalse

\* a loop that gives up on the first timeout
LoopNever(result) == FALSE

\* do { ... } while(result == WAIT_TIMEOUT);
LoopAgain(result) == result = "WAIT_TIMEOUT"

\* ReleaseSemaphore(sema, 2, nullptr)
AfterReleaseTwo(count) == count + 2

\* ReleaseSemaphore(sema, 1, nullptr)
AfterRelease(count) == count + 1

RpcInit ==
    /\ overlayRequestSema = 0
    /\ mainResponseSema = 0
    /\ mainPc = "waiting"
    /\ handlesValid = TRUE
    /\ mutexOwner = 0
    /\ useMutex \in BOOLEAN
    /\ channelFailed = FALSE
    /\ ovPc = [t \in OverlayThreads |-> "idle"]
    /\ waitResult = [t \in OverlayThreads |-> "none"]
    /\ waitRet = [t \in OverlayThreads |-> BoolFalse]
    /\ outcomes = {}
    /\ observedDead = [t \in OverlayThreads |-> FALSE]

\* an overlay thread starts a call on the channel; callers that take the
\* channel mutex do so here. A channel whose wait has failed is not used again.
BeginCall(t) ==
    /\ ovPc[t] = "idle"
    /\ ~channelFailed
    /\ IF useMutex
         THEN mutexOwner = 0 /\ mutexOwner' = t
         ELSE UNCHANGED mutexOwner
    /\ ovPc' = [ovPc EXCEPT ![t] = "request"]
    /\ waitResult' = [waitResult EXCEPT ![t] = "none"]
    /\ UNCHANGED <<overlayRequestSema, mainResponseSema, mainPc, handlesValid,
                   useMutex, channelFailed, waitRet, outcomes, observedDead>>
    /\ UNCHANGED <<bufVars, hdrVars, negVars, handleVars>>

\* void FinishOverlayRequest()
FinishOverlayRequest(t) ==
    /\ ovPc[t] = "request"
    /\ overlayRequestSema' = AfterRelease(overlayRequestSema)
    /\ ovPc' = [ovPc EXCEPT ![t] = "waiting"]
    /\ UNCHANGED <<mainResponseSema, mainPc, handlesValid, mutexOwner, useMutex,
                   channelFailed, waitResult, waitRet, outcomes, observedDead>>
    /\ UNCHANGED <<bufVars, hdrVars, negVars, handleVars>>

\* bool WaitForMainResponseOrFail(): one iteration of the do-while loop and,
\* when the result is not WAIT_TIMEOUT, the return that follows it
WaitForMainResponseOrFail(t) ==
    /\ ovPc[t] = "waiting"
    /\ LET result == WaitForMultipleObjects IN
         /\ waitResult' = [waitResult EXCEPT ![t] = result]
         /\ mainResponseSema' =
              IF result = "WAIT_OBJECT_0" THEN mainResponseSema - 1 ELSE mainResponseSema
         /\ IF LoopAgain(result)
              THEN UNCHANGED <<ovPc, waitRet, outcomes, observedDead>>
              ELSE /\ ovPc' = [ovPc EXCEPT ![t] = "returned"]
                   /\ waitRet' = [waitRet EXCEPT ![t] = WaitReturnValue(result)]
                   /\ outcomes' = outcomes \cup {<<result, WaitReturnValue(result)>>}
                   /\ observedDead' = [observedDead EXCEPT ![t] = otherProcessSignalled]
    /\ UNCHANGED <<overlayRequestSema, mainPc, handlesValid, mutexOwner, useMutex,
                   channelFailed>>
    /\ UNCHANGED <<bufVars, hdrVars, negVars, handleVars>>

\* the call ends: the mutex, if taken, is released; after a failed wait the
\* channel is given up
EndCall(t) ==
    /\ ovPc[t] = "returned"
    /\ mutexOwner' = IF mutexOwner = t THEN 0 ELSE mutexOwner
    /\ IF waitRet[t] = BoolTrue
         THEN /\ ovPc' = [ovPc EXCEPT ![t] = "idle"]
              /\ UNCHANGED channelFailed
         ELSE /\ ovPc' = [ovPc EXCEPT ![t] = "failed"]
              /\ channelFailed' = TRUE
    /\ UNCHANGED <<overlayRequestSema, mainResponseSema, mainPc, handlesValid,
                   useMutex, waitResult, waitRet, outcomes, observedDead>>
    /\ UNCHANGED <<bufVars, hdrVars, negVars, handleVars>>

\* main-side handler: takes a request when "request ready" is signalled
MainTakeRequest ==
    /\ mainPc = "waiting"
    /\ overlayRequestSema > 0
    /\ overlayRequestSema' = overlayRequestSema - 1
    /\ mainPc' = "serving"
    /\ UNCHANGED <<mainResponseSema, handlesValid, mutexOwner, useMutex,
                   channelFailed, ovPc, waitResult, waitRet, outcomes, observedDead>>
    /\ UNCHANGED <<bufVars, hdrVars, negVars, handleVars>>

\* main-side handler: signals "response ready" for the request it served
MainRespond ==
    /\ mainPc = "serving"
    /\ mainResponseSema' = AfterRelease(mainResponseSema)
    /\ mainPc' = "waiting"
    /\ UNCHANGED <<overlayRequestSema, handlesValid, mutexOwner, useMutex,
                   channelFailed, ovPc, waitResult, waitRet, outcomes, observedDead>>
    /\ UNCHANGED <<bufVars, hdrVars, negVars, handleVars>>

\* the main process terminates: its process handle becomes signalled
MainTerminate ==
    /\ mainPc # "dead"
    /\ mainPc' = "dead"
    /\ UNCHANGED <<overlayRequestSema, mainResponseSema, handlesValid, mutexOwner,
                   useMutex, channelFailed, ovPc, waitResult, waitRet, outcomes, observedDead>>
    /\ UNCHANGED <<bufVars, hdrVars, negVars, handleVars>>

\* a handle of the wait set stops being valid (it is closed)
CloseHandles ==
    /\ handlesValid
    /\ handlesValid' = FALSE
    /\ UNCHANGED <<overlayRequestSema, mainResponseSema, mainPc, mutexOwner,
                   useMutex, channelFailed, ovPc, waitResult, waitRet, outcomes, observedDead>>
    /\ UNCHANGED <<bufVars, hdrVars, negVars, handleVars>>

RpcNext ==
    \/ \E t \in OverlayThreads : BeginCall(t)
    \/ \E t \in OverlayThreads : FinishOverlayRequest(t)
    \/ \E t \in OverlayThreads : WaitForMainResponseOrFail(t)
    \/ \E t \in OverlayThreads : EndCall(t)
    \/ MainTakeRequest
    \/ MainRespond
    \/ MainTerminate
    \/ CloseHandles

(* ------------------------------------------------------------------ *)
(* Negotiation: NegotiationParams in the shared segment, the handshake  *)
(* ------------------------------------------------------------------ *)
\* constexpr uint32_t gLayerBinaryVersion
gLayerBinaryVersion == 1

\* the process id of the main process
MainPid == CHOOSE p \in MainPids : TRUE

\* the status the main process writes whatever the versions are
StatusAlwaysSuccess(mainVersion, overlayVersion) == "SUCCESS"

\* the status the main process writes for the two versions in the record
NegotiatedStatus(mainVersion, overlayVersion) ==
    IF mainVersion = overlayVersion THEN "SUCCESS" ELSE "DIFFERENT_BINARY_VERSION"

\* the attempt count compared with <= : one attempt too many
RetryOffByOne(n) == n <= maxAttempts

\* the overlay starts another attempt after n failed ones
MayRetry(n) == n < maxAttempts

\* the main process will not act again: it is stuck holding the negotiation
\* mutex, or its negotiation thread was stopped
MainUnresponsive == mainNegPc \in {"stuck", "stopped"}

\* std::unordered_map insertion: one entry per key
ConnInsert(table, pid, conn) ==
    IF pid \in DOMAIN table THEN table ELSE table @@ (pid :> conn)

NegInit ==
    /\ params = [mainProcessId |-> 0, overlayProcessId |-> 0,
                 mainLayerBinaryVersion |-> 0, overlayLayerBinaryVersion |-> 0,
                 status |-> "SUCCESS"]
    /\ mainNegPc \in {"listening", "stuck"}
    /\ negMutex = IF mainNegPc = "stuck" THEN "main" ELSE "free"
    /\ overlayWaitSema = 0
    /\ mainWaitSema = 0
    /\ ovNegPc = "acquire"
    /\ attempts = 0
    /\ ovPid \in OverlayPids
    /\ ovVersion \in OverlayVersions
    /\ gConnectionsToOverlayByProcessId = <<>>
    /\ channelsCreated = 0

\* what a failed attempt leads to: another attempt, or giving up
AfterFailedAttempt ==
    /\ attempts' = attempts + 1
    /\ ovNegPc' = IF MayRetry(attempts + 1) THEN "acquire" ELSE "failed"

\* overlay: wait for the negotiation mutex, at most mutexWaitMillis
OverlayAcquireMutex ==
    /\ ovNegPc = "acquire"
    /\ negMutex = "free"
    /\ negMutex' = "overlay"
    /\ ovNegPc' = "holding"
    /\ UNCHANGED <<params, overlayWaitSema, mainWaitSema, mainNegPc, attempts,
                   ovPid, ovVersion, gConnectionsToOverlayByProcessId, channelsCreated>>
    /\ UNCHANGED <<bufVars, hdrVars, rpcVars, handleVars>>

\* overlay: the wait for the mutex times out, the main process never releasing it
OverlayMutexTimeout ==
    /\ ovNegPc = "acquire"
    /\ negMutex = "main"
    /\ MainUnresponsive
    /\ AfterFailedAttempt
    /\ UNCHANGED <<params, negMutex, overlayWaitSema, mainWaitSema, mainNegPc,
                   ovPid, ovVersion, gConnectionsToOverlayByProcessId, channelsCreated>>
    /\ UNCHANGED <<bufVars, hdrVars, rpcVars, handleVars>>

\* overlay: write its identity and version into the record, release the mutex
OverlayWriteParams ==
    /\ ovNegPc = "holding"
    /\ params' = [params EXCEPT !.overlayProcessId = ovPid,
                                !.overlayLayerBinaryVersion = ovVersion]
    /\ negMutex' = "free"
    /\ ovNegPc' = "signal"
    /\ UNCHANGED <<overlayWaitSema, mainWaitSema, mainNegPc, attempts,
                   ovPid, ovVersion, gConnectionsToOverlayByProcessId, channelsCreated>>
    /\ UNCHANGED <<bufVars, hdrVars, rpcVars, handleVars>>

\* overlay: signal the semaphore the main negotiation thread waits on
OverlaySignalMain ==
    /\ ovNegPc = "signal"
    /\ mainWaitSema' = mainWaitSema + 1
    /\ ovNegPc' = "await"
    /\ UNCHANGED <<params, negMutex, overlayWaitSema, mainNegPc, attempts,
                   ovPid, ovVersion, gConnectionsToOverlayByProcessId, channelsCreated>>
    /\ UNCHANGED <<bufVars, hdrVars, rpcVars, handleVars>>

\* overlay: the main process has signalled; read the status it wrote
OverlayReadStatus ==
    /\ ovNegPc = "await"
    /\ overlayWaitSema > 0
    /\ overlayWaitSema' = overlayWaitSema - 1
    /\ ovNegPc' = IF params.status = "SUCCESS" THEN "connected" ELSE "incompatible"
    /\ UNCHANGED <<params, negMutex, mainWaitSema, mainNegPc, attempts,
                   ovPid, ovVersion, gConnectionsToOverlayByProcessId, channelsCreated>>
    /\ UNCHANGED <<bufVars, hdrVars, rpcVars, handleVars>>

\* overlay: the wait on the main's semaphore, at most negotiationWaitMillis,
\* times out, the main process never signalling it
OverlayWaitTimeout ==
    /\ ovNegPc = "await"
    /\ overlayWaitSema = 0
    /\ MainUnresponsive
    /\ AfterFailedAttempt
    /\ UNCHANGED <<params, negMutex, overlayWaitSema, mainWaitSema, mainNegPc,
                   ovPid, ovVersion, gConnectionsToOverlayByProcessId, channelsCreated>>
    /\ UNCHANGED <<bufVars, hdrVars, rpcVars, handleVars>>

\* main negotiation thread: woken by the overlay's signal
MainWake ==
    /\ mainNegPc = "listening"
    /\ mainWaitSema > 0
    /\ mainWaitSema' = mainWaitSema - 1
    /\ mainNegPc' = "woken"
    /\ UNCHANGED <<params, negMutex, overlayWaitSema, ovNegPc, attempts,
                   ovPid, ovVersion, gConnectionsToOverlayByProcessId, channelsCreated>>
    /\ UNCHANGED <<bufVars, hdrVars, rpcVars, handleVars>>

\* main negotiation thread: read the record, compare the versions, write the status
MainCompareVersions ==
    /\ mainNegPc = "woken"
    /\ params' = [params EXCEPT
                    !.mainProcessId = MainPid,
                    !.mainLayerBinaryVersion = gLayerBinaryVersion,
                    !.status = NegotiatedStatus(gLayerBinaryVersion,
                                                params.overlayLayerBinaryVersion)]
    /\ mainNegPc' = "decided"
    /\ UNCHANGED <<negMutex, overlayWaitSema, mainWaitSema, ovNegPc, attempts,
                   ovPid, ovVersion, gConnectionsToOverlayByProcessId, channelsCreated>>
    /\ UNCHANGED <<bufVars, hdrVars, rpcVars, handleVars>>

\* main negotiation thread: on SUCCESS create the RPC channel and insert its
\* descriptor in the table, keyed by the overlay's process id
MainCreateConnection ==
    /\ mainNegPc = "decided"
    /\ IF params.status = "SUCCESS"
         THEN /\ gConnectionsToOverlayByProcessId' =
                   ConnInsert(gConnectionsToOverlayByProcessId,
                              params.overlayProcessId, channelsCreated + 1)
              /\ channelsCreated' = channelsCreated + 1
         ELSE UNCHANGED <<gConnectionsToOverlayByProcessId, channelsCreated>>
    /\ mainNegPc' = "answer"
    /\ UNCHANGED <<params, negMutex, overlayWaitSema, mainWaitSema, ovNegPc,
                   attempts, ovPid, ovVersion>>
    /\ UNCHANGED <<bufVars, hdrVars, rpcVars, handleVars>>

\* main negotiation thread: signal the semaphore the overlay waits on
MainSignalOverlay ==
    /\ mainNegPc = "answer"
    /\ overlayWaitSema' = overlayWaitSema + 1
    /\ mainNegPc' = "listening"
    /\ UNCHANGED <<params, negMutex, mainWaitSema, ovNegPc, attempts,
                   ovPid, ovVersion, gConnectionsToOverlayByProcessId, channelsCreated>>
    /\ UNCHANGED <<bufVars, hdrVars, rpcVars, handleVars>>

\* main negotiation thread: the stop signal ends its wait and the thread
MainNegotiateThreadStop ==
    /\ mainNegPc = "listening"
    /\ mainNegPc' = "stopped"
    /\ UNCHANGED <<params, negMutex, overlayWaitSema, mainWaitSema, ovNegPc, attempts,
                   ovPid, ovVersion, gConnectionsToOverlayByProcessId, channelsCreated>>
    /\ UNCHANGED <<bufVars, hdrVars, rpcVars, handleVars>>

OverlayNegotiate ==
    \/ OverlayAcquireMutex
    \/ OverlayMutexTimeout
    \/ OverlayWriteParams
    \/ OverlaySignalMain
    \/ OverlayReadStatus
    \/ OverlayWaitTimeout

MainNegotiate ==
    \/ MainWake
    \/ MainCompareVersions
    \/ MainCreateConnection
    \/ MainSignalOverlay

NegNext ==
    \/ OverlayNegotiate
    \/ MainNegotiate
    \/ MainNegotiateThreadStop

(* ------------------------------------------------------------------ *)
(* GetNextLocalHandle                                                  *)
(* ------------------------------------------------------------------ *)
\* a counter that is handed out without being incremented
HandleSame(h) == h

\* nextHandle++ on the std::atomic_uint64_t: the value after the increment
\* (the calls modelled stay far below 2^64)
HandleAfter(h) == h + 1

\* static std::atomic_uint64_t nextHandle;  zero-initialised
HandleInit ==
    /\ nextHandle = 0
    /\ handedOut = [t \in OverlayThreads |-> <<>>]

\* return nextHandle++;  one atomic read-modify-write, called by thread t
GetNextLocalHandle(t) ==
    /\ nextHandle < MaxHandles
    /\ handedOut' = [handedOut EXCEPT ![t] = Append(@, nextHandle)]
    /\ nextHandle' = HandleAfter(nextHandle)
    /\ UNCHANGED <<bufVars, hdrVars, rpcVars, negVars>>

HandleNext == \E t \in OverlayThreads : GetNextLocalHandle(t)

(* ------------------------------------------------------------------ *)
(* Specifications                                                      *)
(* ------------------------------------------------------------------ *)
BufIdle ==
    /\ base = 16
    /\ size = 0
    /\ current = 16
    /\ mem = <<>>
    /\ bufPc = "unused"
    /\ lastOp = "construct"
    /\ lastArg = 0
    /\ ret = 0
    /\ readOut = <<>>

HdrIdle ==
    /\ hdrBase = 16
    /\ pointerFixupCount = 0
    /\ pointerOffsets = <<>>
    /\ slots = <<>>
    /\ hdrOp = "unused"
    /\ addArg = 0
    /\ addRet = FALSE
    /\ relBase = 0
    /\ snapshot = <<>>
    /\ unrecorded = FALSE
    /\ chainResult = "unused"

RpcIdle ==
    /\ overlayRequestSema = 0
    /\ mainResponseSema = 0
    /\ mainPc = "unused"
    /\ handlesValid = TRUE
    /\ mutexOwner = 0
    /\ useMutex = FALSE
    /\ channelFailed = FALSE
    /\ ovPc = <<>>
    /\ waitResult = <<>>
    /\ waitRet = <<>>
    /\ outcomes = {}
    /\ observedDead = <<>>

NegIdle ==
    /\ params = <<>>
    /\ negMutex = "free"
    /\ overlayWaitSema = 0
    /\ mainWaitSema = 0
    /\ mainNegPc = "unused"
    /\ ovNegPc = "unused"
    /\ attempts = 0
    /\ ovPid = 0
    /\ ovVersion = 0
    /\ gConnectionsToOverlayByProcessId = <<>>
    /\ channelsCreated = 0

HandleIdle ==
    /\ nextHandle = 0
    /\ handedOut = <<>>

InitBuf == BufInit /\ HdrIdle /\ RpcIdle /\ NegIdle /\ HandleIdle
InitHdr == HdrInit /\ BufIdle /\ RpcIdle /\ NegIdle /\ HandleIdle
InitRpc == RpcInit /\ BufIdle /\ HdrIdle /\ NegIdle /\ HandleIdle
InitNeg == NegInit /\ BufIdle /\ HdrIdle /\ RpcIdle /\ HandleIdle
InitHandle == HandleInit /\ BufIdle /\ HdrIdle /\ RpcIdle /\ NegIdle

SpecBuf == InitBuf /\ [][BufNext]_vars

SpecHdr == InitHdr /\ [][HdrNext]_vars

SpecRpc == InitRpc /\ [][RpcNext]_vars

SpecNeg == InitNeg /\ [][NegNext]_vars

SpecHandle == InitHandle /\ [][HandleNext]_vars

\* both processes are scheduled: a step of the overlay's negotiation, or of
\* the main negotiation thread, that stays possible is taken
FairSpecNeg ==
    InitNeg /\ [][NegNext]_vars /\ WF_vars(OverlayNegotiate) /\ WF_vars(MainNegotiate)

(* ------------------------------------------------------------------ *)
(* Claims about IPCBuffer                                              *)
(* ------------------------------------------------------------------ *)
\* n rounded up to a multiple of the alignment, as a number (no wrap-around)
AlignUp(n) == ((n + memberAlignment - 1) \div memberAlignment) * memberAlignment

\* C1: in every reachable state of a buffer of any capacity the cursor does
\* not exceed the capacity: current - base <= size.
C1_CursorWithinCapacity == Offset <= size

\* C2: allocate(n) returns a non-null pointer, the cursor before the call,
\* exactly when cursor + align(n) <= capacity, and null in every other case.
C2_AllocateIffFits ==
    [][\A s \in SizeArgs :
          allocate(s) =>
            /\ (ret' # Null) <=> (Offset + AlignUp(s) <= size)
            /\ (ret' # Null) => (ret' = current)]_vars

\* C3: with the cursor inside the buffer, allocate(n) with n larger than the
\* remaining capacity fails and leaves cursor, base, size and contents as
\* they were, and an allocate(m) that follows a failed one, with m within the
\* remaining capacity, succeeds.
C3_ExhaustionLeavesCursor ==
    [][\A s \in SizeArgs :
          (allocate(s) /\ Offset <= size) =>
            /\ (s > size - Offset) =>
                  (ret' = Null /\ UNCHANGED <<current, base, size, mem>>)
            /\ (lastOp = "allocate" /\ ret = Null /\ s <= size - Offset) =>
                  (ret' # Null)]_vars

(* ------------------------------------------------------------------ *)
(* Claims about IPCHeader                                              *)
(* ------------------------------------------------------------------ *)
\* C4: makePointersAbsolute(B) after makePointersRelative(B) leaves every
\* pointer slot as it was before makePointersRelative(B).
C4_RelocationInverse ==
    (hdrOp = "absolute") => (slots = snapshot)

\* C5: pointerFixupCount stays within 0 .. maxPointerFixupCount; a call of
\* addOffsetToPointer on a full ledger returns false and changes neither the
\* count nor the recorded offsets; every other call returns true and appends
\* fieldAddress - basePointer at the end of the ledger.
C5_LedgerBound ==
    /\ [](pointerFixupCount \in 0 .. 128 /\ Len(pointerOffsets) = pointerFixupCount)
    /\ [][\A vp \in 0 .. (SizeMod - 1) :
            addOffsetToPointer(vp) =>
              IF pointerFixupCount = 128
                THEN /\ addRet' = FALSE
                     /\ pointerFixupCount' = pointerFixupCount
                     /\ pointerOffsets' = pointerOffsets
                ELSE /\ addRet' = TRUE
                     /\ pointerFixupCount' = pointerFixupCount + 1
                     /\ Len(pointerOffsets') = Len(pointerOffsets) + 1
                     /\ SubSeq(pointerOffsets', 1, Len(pointerOffsets)) = pointerOffsets
                     /\ (hdrBase + pointerOffsets'[Len(pointerOffsets')]) % SizeMod = vp]_vars

\* a call on the full ledger has been refused, the 128 entries still recorded
C5_Witness ==
    /\ hdrOp = "add"
    /\ addRet = FALSE
    /\ pointerFixupCount = 128
    /\ pointerOffsets[1] # pointerOffsets[2]

\* C13: a write that would run past the capacity returns false and leaves
\* cursor and contents as they were, a read that would run past it aborts and
\* copies nothing; a write or read that fits copies exactly its s bytes at the
\* old cursor and advances the cursor by s rounded up to a multiple of 8.
\* (Stated for calls made with the cursor inside the buffer.)
C13_ReadWriteBounds ==
    [][\A s \in SizeArgs :
          /\ \A d \in Data :
                (Offset <= size /\ write(s, d)) =>
                  IF Offset + s > size
                    THEN ret' = 0 /\ current' = current /\ mem' = mem
                    ELSE /\ ret' = 1
                         /\ mem' = CopyIn(s, d)
                         /\ current' = current + AlignUp(s)
          /\ (Offset <= size /\ read(s)) =>
                  IF Offset + s > size
                    THEN bufPc' = "aborted" /\ readOut' = <<>> /\ current' = current
                    ELSE /\ bufPc' = "running"
                         /\ readOut' = CopyOut(s)
                         /\ Len(readOut') = s
                         /\ current' = current + AlignUp(s)]_vars

\* C15: after any sequence of reset, allocate, write, read and getAndAdvance
\* the cursor offset is a multiple of 8, and every successful operation of
\* size s moves the cursor offset forward by exactly the least multiple of 8
\* that is >= s, the same for a write and a read of the same size.
\* (Stated for calls made with the cursor inside the buffer.)
C15_AlignedAdvance ==
    /\ [](Offset % memberAlignment = 0)
    /\ [][\A s \in SizeArgs :
            /\ (Offset <= size /\ allocate(s) /\ ret' # Null) =>
                  Offset' = Offset + AlignUp(s)
            /\ (Offset <= size /\ getAndAdvance(s) /\ ret' # Null) =>
                  Offset' = Offset + AlignUp(s)
            /\ \A d \in Data :
                  (Offset <= size /\ write(s, d) /\ ret' = 1) =>
                      Offset' = Offset + AlignUp(s)
            /\ (Offset <= size /\ read(s) /\ bufPc' = "running") =>
                  Offset' = Offset + AlignUp(s)]_vars

\* C17: with size_t arithmetic modulo 2^SizeBits the bound check of allocate,
\* write and read accepts no request that does not fit, however close to
\* 2^SizeBits its size is: after a successful call the region of s bytes at
\* the old cursor lies inside the buffer and the cursor has not moved
\* backwards. (Stated for calls made with the cursor inside the buffer.)
C17_BoundCheckSound ==
    [][\A s \in SizeArgs :
          /\ (Offset <= size /\ allocate(s) /\ ret' # Null) =>
                (Offset + s <= size /\ Offset' >= Offset)
          /\ \A d \in Data :
                (Offset <= size /\ write(s, d) /\ ret' = 1) =>
                    (Offset + s <= size /\ Offset' >= Offset)
          /\ (Offset <= size /\ read(s) /\ bufPc' = "running") =>
                (Offset + s <= size /\ Offset' >= Offset)]_vars

C12_NullStaysDistinct ==
    [][(makePointersRelative(hdrBase) \/ makePointersAbsolute(hdrBase)) =>
          \A i \in 1 .. pointerFixupCount :
              (slots[SlotAt(i)] = Null) <=> (slots'[SlotAt(i)] = Null)]_vars

(* ------------------------------------------------------------------ *)
(* Claims about RPCChannels                                            *)
(* ------------------------------------------------------------------ *)
\* C6: a wait that ends because the main process terminated (no response
\* being signalled) reports MAIN_PROCESS_TERMINATED.
C6_ReportsMainTerminated ==
    \A t \in DOMAIN ovPc :
        (ovPc[t] = "returned" /\ waitResult[t] = "WAIT_OBJECT_1") =>
            (waitRet[t] = MAIN_PROCESS_TERMINATED)

\* C7: the value the wait returns for a terminated main process differs from
\* the value it returns for every other way the wait ends.
C7_TerminationDistinct ==
    \A a \in outcomes, b \in outcomes :
        (a[1] = "WAIT_OBJECT_1" /\ b[1] # "WAIT_OBJECT_1") => (a[2] # b[2])

\* requests signalled whose response has not been consumed yet
Outstanding ==
    overlayRequestSema + (IF mainPc = "serving" THEN 1 ELSE 0) + mainResponseSema

NoConnection ==
    gConnectionsToOverlayByProcessId = <<>> /\ channelsCreated = 0

NeverAnswered ==
    /\ MainUnresponsive
    /\ overlayWaitSema = 0
    /\ ovNegPc \in {"acquire", "holding", "signal", "await"}

\* C10: when the main process never responds the overlay makes at most
\* maxAttempts attempts and then ends its negotiation reporting failure,
\* without a channel having been created.
C10_NegotiationTerminates ==
    /\ [](attempts <= maxAttempts)
    /\ [](ovNegPc = "failed" => (attempts = maxAttempts /\ NoConnection))
    /\ [][ovNegPc' = "failed" /\ ovNegPc # "failed" => MainUnresponsive]_vars
    /\ (NeverAnswered ~> (ovNegPc = "failed"))

\* the overlay gave up after its last attempt timed out on the semaphore of
\* a main process whose negotiation thread had stopped
C10_Witness ==
    /\ ovNegPc = "failed"
    /\ attempts = maxAttempts
    /\ mainNegPc = "stopped"
    /\ mainWaitSema > 0

\* C14: WaitForMainResponseOrFail does not return on a timeout: a wait that
\* finds neither the response semaphore nor the main process handle signalled,
\* with valid handles, is issued again. It returns only with the response
\* semaphore acquired (true), with the main process handle signalled (false)
\* or with a failed wait (false); it returns true only by taking one response
\* signal, and response signals are released by the main side only.
C14_NoReturnOnTimeout ==
    [][/\ \A t \in OverlayThreads :
            /\ (ovPc[t] = "waiting" /\ ovPc'[t] = "returned") =>
                  /\ waitResult'[t] # "WAIT_TIMEOUT"
                  /\ \/ /\ waitResult'[t] = "WAIT_OBJECT_0"
                        /\ waitRet'[t] = BoolTrue
                        /\ mainResponseSema > 0
                        /\ mainResponseSema' = mainResponseSema - 1
                     \/ /\ waitResult'[t] = "WAIT_OBJECT_1"
                        /\ waitRet'[t] = BoolFalse
                        /\ otherProcessSignalled
                        /\ mainResponseSema' = mainResponseSema
                     \/ /\ waitResult'[t] = "WAIT_FAILED"
                        /\ waitRet'[t] = BoolFalse
                        /\ ~handlesValid
                        /\ mainResponseSema' = mainResponseSema
            /\ (/\ WaitForMainResponseOrFail(t)
                /\ handlesValid
                /\ mainResponseSema = 0
                /\ ~otherProcessSignalled) =>
                  /\ ovPc'[t] = "waiting"
                  /\ waitResult'[t] = "WAIT_TIMEOUT"
       /\ (mainResponseSema' > mainResponseSema) => MainRespond]_vars

\* one overlay thread has returned true while another, after a timeout, is
\* still waiting
C14_Witness ==
    \E t, u \in OverlayThreads :
        /\ ovPc[t] = "waiting" /\ waitResult[t] = "WAIT_TIMEOUT"
        /\ ovPc[u] = "returned" /\ waitRet[u] = BoolTrue

\* C18: a wait made when the response semaphore is signalled and the main
\* process has terminated as well (the handles being valid) returns true, by
\* the semaphore at index 0 of the wait set, and not failure; every return of
\* true takes exactly one response signal.
C18_ResponseBeforeTermination ==
    [][\A t \in OverlayThreads :
          /\ (/\ WaitForMainResponseOrFail(t)
              /\ handlesValid
              /\ mainResponseSema > 0
              /\ otherProcessSignalled) =>
                /\ ovPc'[t] = "returned"
                /\ waitResult'[t] = "WAIT_OBJECT_0"
                /\ waitRet'[t] = BoolTrue
          /\ (ovPc[t] = "waiting" /\ ovPc'[t] = "returned" /\ waitRet'[t] = BoolTrue) =>
                mainResponseSema' = mainResponseSema - 1]_vars

\* a thread has returned true from a wait that ended with the main process
\* already terminated
C18_Witness ==
    \E t \in OverlayThreads :
        /\ ovPc[t] = "returned"
        /\ waitRet[t] = BoolTrue
        /\ observedDead[t]
        /\ mainPc = "dead"

(* ------------------------------------------------------------------ *)
(* Claims about GetNextLocalHandle                                     *)
(* ------------------------------------------------------------------ *)
\* C16: under any interleaving of calls from several threads no two calls of
\* GetNextLocalHandle return the same value, and the values returned to one
\* thread are strictly increasing.
C16_UniqueIncreasing ==
    /\ \A t, u \in DOMAIN handedOut :
          \A i \in DOMAIN handedOut[t], j \in DOMAIN handedOut[u] :
              (t # u \/ i # j) => handedOut[t][i] # handedOut[u][j]
    /\ \A t \in DOMAIN handedOut :
          \A i, j \in DOMAIN handedOut[t] :
              i < j => handedOut[t][i] < handedOut[t][j]

\* two threads have called in turn: the second call of one thread came after
\* the first call of the other
C16_Witness ==
    \E t, u \in DOMAIN handedOut :
        /\ t # u
        /\ Len(handedOut[t]) >= 2
        /\ Len(handedOut[u]) >= 2
        /\ handedOut[t][1] < handedOut[u][1]
        /\ handedOut[u][1] < handedOut[t][2]

====
